---- MODULE Spec2Model ----
(***************************************************************************)
(* Model of lib/trainer.py (class Trainer): construction and resume,       *)
(* the epoch loop with gradient accumulation, the checkpoint writer and    *)
(* the per-rank control flow of train().                                   *)
(*                                                                         *)
(* One process per rank.  A "run" is one launch of the program: every      *)
(* active rank constructs a Trainer and calls train().  The checkpoint     *)
(* directory, the log file and the model-description file outlive a run.   *)
(***************************************************************************)
EXTENDS Integers, Naturals, Sequences, FiniteSets, TLC

\* ------------------------------------------------------------------ bounds
NRanks == 2            \* processes of a distributed run (local_rank 0 .. NRanks-1)
MaxRuns == 2           \* launches of the program that are explored
MaxBatches == 5        \* largest len(loader['train'])
MaxDistBatches == 2    \* largest len(loader['train']) of a distributed run
MaxResumeBatches == 2  \* largest len(loader['train']) in a chain of launches
MaxValBatches == 1     \* largest len(loader['val'])
MaxIterSize == 3       \* largest args.iter_size
MaxEpoch == 3          \* largest args.max_epoch
MaxVerboseFreq == 2    \* largest self.verbose_freq
MaxEvalBatches == 2    \* largest len(loader['val']) of a run that is evaluated
MaxBatchSize == 2      \* largest args.batch_size

\* ------------------------------------------------------- program constants
BestLossInit == 100000       \* self.best_loss = 1e5
BestRecallInit == -100000    \* self.best_recall = -1e5
Threshold == 20              \* rmses < 0.2, in hundredths

Ranks == 0 .. (NRanks - 1)
Modes == {"single", "parallel", "distributed"}
GradKinds == {"ok", "zero", "nan"}     \* what backward() of one batch adds
LossVals == {1, 2}                     \* loss_info['loss'] the loss function returns
ParamNames == {"weight", "bias"}       \* parameter names of the bare model
LossKeys == {"loss", "extra"}          \* metric names a LossInfo can hold
RmseVals == {5, 19, 20, 21, 50}        \* RMSE of one sample, in hundredths

\* file names inside save_dir
SnapshotName == [base |-> "snapshot", label |-> <<>>]
MissingName == [base |-> "absent", label |-> <<>>]
NoPretrain == [base |-> "", label |-> <<>>]
PretrainChoices == {NoPretrain, SnapshotName, MissingName}

VARIABLES
    cfg,            \* args of the current run
    run,            \* number of the current run
    fs,             \* save_dir: file name -> checkpoint record
    logfile,        \* lines this run has put in <snapshot_dir>/log, as <<rank, tag>>
    modelfile,      \* ranks that have written <snapshot_dir>/model in this run
    ckwrites,       \* torch.save calls of this run: [rank, name, after]
    saved,          \* completed _snapshot calls, oldest first
    lastSave,       \* the trainer as the latest completed _snapshot saw it
    allreduce,      \* gradient of the batch the ranks last synchronised on
    pc,             \* per rank: position in the program
    phase, epoch, c_iter,
    start_epoch, best_loss, best_recall,
    model, optimizer, scheduler,
    grads,          \* per rank: batch gradients accumulated in .grad
    stats_meter,
    loss_info,      \* per rank: the LossInfo of the latest batch of the epoch
    succ_iteration,
    RR,             \* per rank: the recall the latest val epoch reported, <<num, den>>
    scalars,        \* per rank: what summary_writer.add_scalar was given, in order
    recalled,       \* per rank: get_recall calls of the epoch and the RMSEs they returned
    state, filename,          \* locals of _snapshot between the two writes
    stepAt, zgStart, zgLoop,  \* per rank: optimizer calls so far
    applied, skipped, visited,
    checked,        \* per rank: the gradients validate_gradient saw in the latest batch
    resumed         \* per rank: what _load_pretrain read

trainerVars == <<start_epoch, best_loss, best_recall, model, optimizer, scheduler>>
loopVars == <<phase, epoch, c_iter, grads, stats_meter, loss_info, allreduce>>
evalVars == <<succ_iteration, RR, recalled>>
histVars == <<stepAt, zgStart, zgLoop, applied, skipped, visited, checked>>
saveVars == <<fs, state, filename, ckwrites, saved, lastSave>>
sinkVars == <<logfile, modelfile>>
vars == <<cfg, run, pc, trainerVars, loopVars, evalVars, histVars, saveVars, sinkVars,
          scalars, resumed>>

NoRecord == [epoch |-> 0]
NoMeter == [set |-> FALSE, d |-> <<>>]                 \* stats_meter = None
NoRecall == [calls |-> 0, seen |-> [v \in RmseVals |-> 0]]
NoRR == <<0, 0>>
NoSync == [c |-> 0, g |-> "ok"]

\* ----------------------------------------------------------- configuration
distributed == cfg.mode = "distributed"
parallel == cfg.mode = "parallel"

\* processes that exist in the current run
Active == 0 .. (cfg.world - 1)

\* args of one run, and what its data makes the loss function (keysets: the
\* sets of metric names) and the recall evaluator (rmses) return
ConfigSet(modes, worlds, iters, epochs, valids, pretrains, ntrains, nvals, verboses, freqs) ==
    [mode : modes, world : worlds, iter_size : iters, max_epoch : epochs,
     do_valid : valids, pretrain : pretrains,
     ntrain : ntrains, nval : nvals,
     verbose : verboses, verbose_freq : freqs, loss : LossVals,
     batch_size : {1}, keysets : {{{"loss"}}}, rmses : {{19}}]

\* one launch that is evaluated: what the loss function and the recall
\* evaluator can return varies from batch to batch
EvalSet(iters, ntrains, nvals, sizes) ==
    [mode : {"single"}, world : {1}, iter_size : iters, max_epoch : {2},
     do_valid : {TRUE}, pretrain : {NoPretrain},
     ntrain : ntrains, nval : nvals,
     verbose : {FALSE}, verbose_freq : {1}, loss : {1},
     batch_size : sizes, keysets : {{{"loss"}, LossKeys}}, rmses : {RmseVals}]

\* one launch on an empty directory: every shape of the epoch loop in one
\* process, and shorter epochs in the processes of a distributed run
LoopConfigs ==
    ConfigSet({"single", "parallel"}, {1}, 1 .. MaxIterSize, 1 .. 2, BOOLEAN, {NoPretrain},
              0 .. MaxBatches, 0 .. MaxValBatches, BOOLEAN, 1 .. MaxVerboseFreq)
    \cup
    ConfigSet({"distributed"}, {NRanks}, 1 .. MaxDistBatches, 1 .. 2, BOOLEAN, {NoPretrain},
              0 .. MaxDistBatches, 0 .. MaxValBatches, BOOLEAN, {1})

\* launches of one process that follow one another on the same directory,
\* without validation
ResumeConfigs ==
    ConfigSet(Modes, {1}, {1}, 2 .. MaxEpoch, {FALSE}, PretrainChoices,
              1 .. MaxResumeBatches, {0}, {FALSE}, {1})

\* launches of one process that follow one another with progress reports
SeriesConfigs ==
    [mode : {"single"}, world : {1}, iter_size : {1}, max_epoch : 2 .. MaxEpoch,
     do_valid : {FALSE}, pretrain : {NoPretrain, SnapshotName},
     ntrain : 1 .. MaxResumeBatches, nval : {0},
     verbose : {TRUE}, verbose_freq : 1 .. MaxVerboseFreq, loss : {1},
     batch_size : {1}, keysets : {{{"loss"}}}, rmses : {{19}}]

\* the configurations the program can be launched with after a run with c:
\* with progress reports, the same loaders again
Relaunch(c) ==
    IF c \in SeriesConfigs
    THEN {d \in SeriesConfigs : d.ntrain = c.ntrain}
    ELSE ResumeConfigs

EvalConfigs == EvalSet({1}, 1 .. 2, 0 .. MaxEvalBatches, 1 .. MaxBatchSize)

\* len(self.loader[phase])
LoaderLen(ph) == IF ph = "train" THEN cfg.ntrain ELSE cfg.nval

\* ------------------------------------------------- parameter-name handling
\* a state_dict key: `pre` copies of 'module.' in front of `name`
Key(p, nm) == [pre |-> p, name |-> nm]

\* key[7:]; on a key without prefix it eats the name itself
\* ('weight'[7:] = 'bias'[7:] = '')
StripPrefix(k) == IF k.pre > 0 THEN Key(k.pre - 1, k.name) ELSE Key(0, "")

\* 'module.' + key
AddPrefix(k) == Key(k.pre + 1, k.name)

\* model.state_dict(): every wrapper adds one 'module.' to every name
StateDict(m) == [k \in {Key(m.depth, nm) : nm \in ParamNames} |-> m.params[k.name]]

\* OrderedDict([(key[7:], value) for key, value in d.items()])
StripAll(d) ==
    [k2 \in {StripPrefix(k) : k \in DOMAIN d} |->
        d[CHOOSE k \in DOMAIN d : StripPrefix(k) = k2]]

\* OrderedDict([('module.' + key, value) for key, value in d.items()])
PrefixAll(d) ==
    [k2 \in {AddPrefix(k) : k \in DOMAIN d} |->
        d[CHOOSE k \in DOMAIN d : AddPrefix(k) = k2]]

\* ------------------------------------------------------------------- Init
FreshRank(r, c) == IF r < c.world THEN "new" ELSE "off"

FreshModel == [depth |-> 0, params |-> [nm \in ParamNames |-> 0]]

\* a process before Trainer.__init__ has run
Launch(c) ==
    /\ cfg' = c
    /\ pc' = [r \in Ranks |-> FreshRank(r, c)]
    /\ phase' = [r \in Ranks |-> "train"]
    /\ epoch' = [r \in Ranks |-> 0]
    /\ c_iter' = [r \in Ranks |-> 0]
    /\ start_epoch' = [r \in Ranks |-> 0]
    /\ best_loss' = [r \in Ranks |-> 0]
    /\ best_recall' = [r \in Ranks |-> 0]
    /\ model' = [r \in Ranks |-> FreshModel]
    /\ optimizer' = [r \in Ranks |-> 0]
    /\ scheduler' = [r \in Ranks |-> 0]
    /\ grads' = [r \in Ranks |-> {}]
    /\ stats_meter' = [r \in Ranks |-> NoMeter]
    /\ loss_info' = [r \in Ranks |-> <<>>]
    /\ succ_iteration' = [r \in Ranks |-> 0]
    /\ RR' = [r \in Ranks |-> NoRR]
    /\ recalled' = [r \in Ranks |-> NoRecall]
    /\ allreduce' = NoSync
    /\ state' = [r \in Ranks |-> NoRecord]
    /\ filename' = [r \in Ranks |-> NoPretrain]
    /\ ckwrites' = <<>>
    /\ stepAt' = [r \in Ranks |-> {}]
    /\ zgStart' = [r \in Ranks |-> 0]
    /\ zgLoop' = [r \in Ranks |-> 0]
    /\ applied' = [r \in Ranks |-> {}]
    /\ skipped' = [r \in Ranks |-> {}]
    /\ visited' = [r \in Ranks |-> <<>>]
    /\ checked' = [r \in Ranks |-> {}]
    /\ resumed' = [r \in Ranks |-> [hit |-> FALSE, rec |-> NoRecord, keys |-> {}]]

InitWith(C) ==
    /\ cfg \in C
    /\ run = 1
    /\ fs = <<>>
    /\ logfile = {}
    /\ modelfile = {}
    /\ scalars = [r \in Ranks |-> <<>>]
    /\ ckwrites = <<>>
    /\ saved = <<>>
    /\ lastSave = NoRecord
    /\ allreduce = NoSync
    /\ pc = [r \in Ranks |-> FreshRank(r, cfg)]
    /\ phase = [r \in Ranks |-> "train"]
    /\ epoch = [r \in Ranks |-> 0]
    /\ c_iter = [r \in Ranks |-> 0]
    /\ start_epoch = [r \in Ranks |-> 0]
    /\ best_loss = [r \in Ranks |-> 0]
    /\ best_recall = [r \in Ranks |-> 0]
    /\ model = [r \in Ranks |-> FreshModel]
    /\ optimizer = [r \in Ranks |-> 0]
    /\ scheduler = [r \in Ranks |-> 0]
    /\ grads = [r \in Ranks |-> {}]
    /\ stats_meter = [r \in Ranks |-> NoMeter]
    /\ loss_info = [r \in Ranks |-> <<>>]
    /\ succ_iteration = [r \in Ranks |-> 0]
    /\ RR = [r \in Ranks |-> NoRR]
    /\ recalled = [r \in Ranks |-> NoRecall]
    /\ state = [r \in Ranks |-> NoRecord]
    /\ filename = [r \in Ranks |-> NoPretrain]
    /\ stepAt = [r \in Ranks |-> {}]
    /\ zgStart = [r \in Ranks |-> 0]
    /\ zgLoop = [r \in Ranks |-> 0]
    /\ applied = [r \in Ranks |-> {}]
    /\ skipped = [r \in Ranks |-> {}]
    /\ visited = [r \in Ranks |-> <<>>]
    /\ checked = [r \in Ranks |-> {}]
    /\ resumed = [r \in Ranks |-> [hit |-> FALSE, rec |-> NoRecord, keys |-> {}]]

Init == InitWith(LoopConfigs)

InitResume == InitWith(ResumeConfigs)

InitEval == InitWith(EvalConfigs)

InitSeries == InitWith(SeriesConfigs)

\* the program is launched again on the same directories
NewRun ==
    /\ run < MaxRuns
    /\ \A r \in Active : pc[r] \in {"done", "crashed"}
    /\ run' = run + 1
    /\ \E c \in Relaunch(cfg) : Launch(c)
    /\ logfile' = {}
    /\ modelfile' = {}
    /\ UNCHANGED <<fs, saved, lastSave, scalars>>

\* ---------------------------------------------------------- Trainer.__init__
\* lines 48-59: the fields set before the model is wrapped, and the DDP wrap
Construct(r) ==
    /\ pc[r] = "new"
    /\ pc' = [pc EXCEPT ![r] = "wrapped"]
    /\ start_epoch' = [start_epoch EXCEPT ![r] = 1]
    /\ model' = [model EXCEPT ![r] =
                    [depth |-> IF distributed THEN 1 ELSE 0, params |-> FreshModel.params]]
    /\ UNCHANGED <<cfg, run, best_loss, best_recall, optimizer, scheduler,
                   loopVars, evalVars, histVars, saveVars, sinkVars, scalars, resumed>>

\* self.model.load_state_dict(model_dict): strict, the names must be the model's
LoadStateDict(m, d) ==
    IF DOMAIN d = DOMAIN StateDict(m)
    THEN [ok |-> TRUE,
          model |-> [m EXCEPT !.params = [nm \in ParamNames |-> d[Key(m.depth, nm)]]]]
    ELSE [ok |-> FALSE, model |-> m]

\* _load_pretrain that resumes at the saved epoch itself
LoadPretrainSameEpoch(t, resume) ==
    IF resume \in DOMAIN fs
    THEN LET st == fs[resume]
             model_dict == IF distributed
                           THEN PrefixAll(st.state_dict)
                           ELSE st.state_dict
             ld == LoadStateDict(t.model, model_dict)
         IN  [ok |-> ld.ok, hit |-> TRUE, rec |-> st, keys |-> DOMAIN model_dict,
              model |-> ld.model,
              start_epoch |-> st.epoch,
              scheduler |-> st.scheduler,
              optimizer |-> st.optimizer,
              best_loss |-> st.best_loss,
              best_recall |-> st.best_recall]
    ELSE t

\* _load_pretrain that raises when the file is not there
LoadPretrainStrict(t, resume) ==
    IF resume \in DOMAIN fs
    THEN LET st == fs[resume]
             model_dict == IF distributed
                           THEN PrefixAll(st.state_dict)
                           ELSE st.state_dict
             ld == LoadStateDict(t.model, model_dict)
         IN  [ok |-> ld.ok, hit |-> TRUE, rec |-> st, keys |-> DOMAIN model_dict,
              model |-> ld.model,
              start_epoch |-> st.epoch + 1,
              scheduler |-> st.scheduler,
              optimizer |-> st.optimizer,
              best_loss |-> st.best_loss,
              best_recall |-> st.best_recall]
    ELSE [t EXCEPT !.ok = FALSE]

\* _load_pretrain(resume) on the trainer fields t
LoadPretrain(t, resume) ==
    IF resume \in DOMAIN fs
    THEN LET st == fs[resume]
             model_dict == IF distributed
                           THEN PrefixAll(st.state_dict)
                           ELSE st.state_dict
             ld == LoadStateDict(t.model, model_dict)
         IN  IF ld.ok
             THEN [ok |-> TRUE, hit |-> TRUE, rec |-> st, keys |-> DOMAIN model_dict,
                   model |-> ld.model,
                   start_epoch |-> st.epoch + 1,
                   scheduler |-> st.scheduler,
                   optimizer |-> st.optimizer,
                   best_loss |-> st.best_loss,
                   best_recall |-> st.best_recall]
             ELSE [t EXCEPT !.ok = FALSE, !.hit = TRUE, !.rec = st, !.keys = DOMAIN model_dict]
    ELSE t

\* lines 61-95: the rest of the constructor
Setup(r) ==
    /\ pc[r] = "wrapped"
    /\ distributed => \A q \in Active : pc[q] # "new"
    /\ LET t0 == [ok |-> TRUE, hit |-> FALSE, rec |-> NoRecord, keys |-> {},
                  model |-> model[r],
                  start_epoch |-> start_epoch[r],
                  scheduler |-> 0,
                  optimizer |-> 0,
                  best_loss |-> BestLossInit,
                  best_recall |-> BestRecallInit]
           t == IF cfg.pretrain # NoPretrain THEN LoadPretrain(t0, cfg.pretrain) ELSE t0
       IN  /\ start_epoch' = [start_epoch EXCEPT ![r] = t.start_epoch]
           /\ scheduler' = [scheduler EXCEPT ![r] = t.scheduler]
           /\ optimizer' = [optimizer EXCEPT ![r] = t.optimizer]
           /\ best_loss' = [best_loss EXCEPT ![r] = t.best_loss]
           /\ best_recall' = [best_recall EXCEPT ![r] = t.best_recall]
           /\ resumed' = [resumed EXCEPT ![r] = [hit |-> t.hit, rec |-> t.rec, keys |-> t.keys]]
           /\ IF t.ok
              THEN /\ model' = [model EXCEPT ![r] =
                                  [t.model EXCEPT !.depth = IF parallel THEN @ + 1 ELSE @]]
                   /\ logfile' = logfile \cup {<<r, "parameters">>}
                                    \cup (IF t.hit THEN {<<r, "loaded">>} ELSE {})
                   /\ modelfile' = modelfile \cup {r}
                   /\ pc' = [pc EXCEPT ![r] = "ready"]
              ELSE /\ model' = model
                   /\ logfile' = logfile \cup {<<r, "parameters">>}
                   /\ modelfile' = modelfile
                   /\ pc' = [pc EXCEPT ![r] = "crashed"]
    /\ UNCHANGED <<cfg, run, loopVars, evalVars, histVars, saveVars, scalars>>

\* ------------------------------------------------------- collaborators
\* lib.utils.validate_gradient: finite everywhere and not all zero
validate_gradient(g) ==
    /\ \A b \in g : b.g # "nan"
    /\ \E b \in g : b.g = "ok"

\* lib.timer.AverageMeter()
NewMeter == [sum |-> 0, count |-> 0]

\* lib.timer.AverageMeter.update(val)
MeterUpdate(m, v) == [sum |-> m.sum + v, count |-> m.count + 1]

GCD(a, b) == CHOOSE d \in 1 .. a : a % d = 0 /\ b % d = 0 /\
                 \A e \in (d + 1) .. a : ~(a % e = 0 /\ b % e = 0)

\* lib.timer.AverageMeter.avg = sum / count, as a fraction in lowest terms
MeterAvg(m) == LET d == GCD(m.sum, m.count) IN <<m.sum \div d, m.count \div d>>

\* lib.utils.Logger.write(text): one more line in the log file
LoggerWrite(r, tags) == logfile' = logfile \cup {<<r, t>> : t \in tags}

\* self.loss(data): the LossInfo of one batch, with the metric names ks
LossInfo(ks) == [k \in ks |-> IF k = "loss" THEN cfg.loss ELSE 1]

\* lines 238-243 with a meter made for every name that is not there yet
StatsUpdateGrow(sm, info) ==
    LET made == IF sm.set THEN sm.d ELSE [k \in DOMAIN info |-> NewMeter]
        all == DOMAIN made \cup DOMAIN info
    IN  [ok |-> TRUE,
         meter |-> [set |-> TRUE,
                    d |-> [k \in all |->
                             IF k \in DOMAIN info
                             THEN MeterUpdate(IF k \in DOMAIN made THEN made[k] ELSE NewMeter,
                                              info[k])
                             ELSE made[k]]]]

\* lines 238-243: the meters are made from the first LossInfo of the epoch;
\* stats_meter[key] of a name that came later raises KeyError, and the
\* local stats_meter goes with the frame
StatsUpdate(sm, info) ==
    LET made == IF sm.set THEN sm.d ELSE [k \in DOMAIN info |-> NewMeter]
    IN  IF DOMAIN info \subseteq DOMAIN made
        THEN [ok |-> TRUE,
              meter |-> [set |-> TRUE,
                         d |-> [k \in DOMAIN made |->
                                  IF k \in DOMAIN info
                                  THEN MeterUpdate(made[k], info[k])
                                  ELSE made[k]]]]
        ELSE [ok |-> FALSE, meter |-> [set |-> TRUE, d |-> made]]

\* ------------------------------------------------------------ train(), head
\* the epoch loop as range(1, max_epoch)
TrainBeginAtOne(r) ==
    /\ pc[r] = "ready"
    /\ IF 1 < cfg.max_epoch
       THEN /\ epoch' = [epoch EXCEPT ![r] = 1]
            /\ pc' = [pc EXCEPT ![r] = "epoch"]
       ELSE /\ epoch' = epoch
            /\ pc' = [pc EXCEPT ![r] = "done"]
    /\ phase' = [phase EXCEPT ![r] = "train"]
    /\ UNCHANGED <<cfg, run, trainerVars, c_iter, grads, stats_meter, loss_info, allreduce,
                   evalVars, histVars, saveVars, sinkVars, scalars, resumed>>

\* lines 282-286: the head of the epoch loop, range(start_epoch, max_epoch)
TrainBegin(r) ==
    /\ pc[r] = "ready"
    /\ IF start_epoch[r] < cfg.max_epoch
       THEN /\ epoch' = [epoch EXCEPT ![r] = start_epoch[r]]
            /\ pc' = [pc EXCEPT ![r] = "epoch"]
       ELSE /\ epoch' = epoch
            /\ pc' = [pc EXCEPT ![r] = "done"]
    /\ phase' = [phase EXCEPT ![r] = "train"]
    /\ UNCHANGED <<cfg, run, trainerVars, c_iter, grads, stats_meter, loss_info, allreduce,
                   evalVars, histVars, saveVars, sinkVars, scalars, resumed>>

\* ------------------------------------------------------ inference_one_epoch
\* lines 181-198 without the zero_grad of line 196
EpochBeginKeep(r) ==
    /\ pc[r] = "epoch"
    /\ stats_meter' = [stats_meter EXCEPT ![r] = NoMeter]
    /\ grads' = grads
    /\ zgStart' = zgStart
    /\ c_iter' = [c_iter EXCEPT ![r] = 0]
    /\ loss_info' = [loss_info EXCEPT ![r] = <<>>]
    /\ succ_iteration' = [succ_iteration EXCEPT ![r] = 0]
    /\ recalled' = [recalled EXCEPT ![r] = NoRecall]
    /\ pc' = [pc EXCEPT ![r] = "batch"]
    /\ UNCHANGED <<cfg, run, trainerVars, phase, epoch, allreduce, RR,
                   stepAt, zgLoop, applied, skipped, visited, checked,
                   saveVars, sinkVars, scalars, resumed>>

\* lines 181-198: before the loop
EpochBegin(r) ==
    /\ pc[r] = "epoch"
    /\ stats_meter' = [stats_meter EXCEPT ![r] = NoMeter]
    /\ grads' = [grads EXCEPT ![r] = {}]
    /\ zgStart' = [zgStart EXCEPT ![r] = @ + 1]
    /\ c_iter' = [c_iter EXCEPT ![r] = 0]
    /\ loss_info' = [loss_info EXCEPT ![r] = <<>>]
    /\ succ_iteration' = [succ_iteration EXCEPT ![r] = 0]
    /\ recalled' = [recalled EXCEPT ![r] = NoRecall]
    /\ pc' = [pc EXCEPT ![r] = "batch"]
    /\ UNCHANGED <<cfg, run, trainerVars, phase, epoch, allreduce, RR,
                   stepAt, zgLoop, applied, skipped, visited, checked,
                   saveVars, sinkVars, scalars, resumed>>

\* the boundary test on c_iter instead of c_iter + 1
AtBoundaryEarly(c, ph) == c % cfg.iter_size = 0 /\ ph = "train"

\* (c_iter + 1) % self.iter_size == 0 and phase == 'train'
AtBoundary(c, ph) == (c + 1) % cfg.iter_size = 0 /\ ph = "train"

\* (c_iter + 1) % self.verbose_freq == 0 and self.verbose, in the train phase
AtVerbose(c, ph) == ph = "train" /\ (c + 1) % cfg.verbose_freq = 0 /\ cfg.verbose

\* backward() under DistributedDataParallel returns once every rank has
\* entered the backward pass of the same batch
Backwards(q) == IF pc[q] \in {"new", "wrapped", "ready", "epoch", "crashed", "off"} THEN 0
                ELSE IF phase[q] = "train" /\ pc[q] = "batch" THEN c_iter[q]
                ELSE cfg.ntrain

AllReduced(r) ==
    \A q \in Active \ {r} :
        \/ Backwards(q) > c_iter[r]
        \/ /\ Backwards(q) = c_iter[r]
           /\ pc[q] = "batch" /\ phase[q] = "train" /\ c_iter[q] < cfg.ntrain

\* lines 226-232 without the zero_grad: every boundary steps
StepAlways(r, g, b) ==
    /\ optimizer' = [optimizer EXCEPT ![r] = @ + 1]
    /\ model' = [model EXCEPT ![r].params = [nm \in ParamNames |-> @[nm] + 1]]
    /\ stepAt' = [stepAt EXCEPT ![r] = @ \cup {b}]
    /\ applied' = [applied EXCEPT ![r] = @ \cup {<<x.e, x.c>> : x \in g}]
    /\ skipped' = skipped
    /\ grads' = [grads EXCEPT ![r] = {}]
    /\ zgLoop' = [zgLoop EXCEPT ![r] = @ + 1]
    /\ checked' = [checked EXCEPT ![r] = {x.g : x \in g}]

\* lines 226-232 with zero_grad only after a step
StepOrRetry(r, g, b) ==
    /\ IF validate_gradient(g)
       THEN /\ optimizer' = [optimizer EXCEPT ![r] = @ + 1]
            /\ model' = [model EXCEPT ![r].params = [nm \in ParamNames |-> @[nm] + 1]]
            /\ stepAt' = [stepAt EXCEPT ![r] = @ \cup {b}]
            /\ applied' = [applied EXCEPT ![r] = @ \cup {<<x.e, x.c>> : x \in g}]
            /\ skipped' = skipped
            /\ grads' = [grads EXCEPT ![r] = {}]
            /\ zgLoop' = [zgLoop EXCEPT ![r] = @ + 1]
       ELSE /\ optimizer' = optimizer
            /\ model' = model
            /\ stepAt' = stepAt
            /\ applied' = applied
            /\ skipped' = [skipped EXCEPT ![r] = @ \cup {<<x.e, x.c>> : x \in g}]
            /\ grads' = [grads EXCEPT ![r] = g]
            /\ zgLoop' = zgLoop
    /\ checked' = [checked EXCEPT ![r] = {x.g : x \in g}]

\* lines 226-232 on the accumulated gradients g, after batch number b
StepOrSkip(r, g, b) ==
    /\ IF validate_gradient(g)
       THEN /\ optimizer' = [optimizer EXCEPT ![r] = @ + 1]
            /\ model' = [model EXCEPT ![r].params = [nm \in ParamNames |-> @[nm] + 1]]
            /\ stepAt' = [stepAt EXCEPT ![r] = @ \cup {b}]
            /\ applied' = [applied EXCEPT ![r] = @ \cup {<<x.e, x.c>> : x \in g}]
            /\ skipped' = skipped
       ELSE /\ optimizer' = optimizer
            /\ model' = model
            /\ stepAt' = stepAt
            /\ applied' = applied
            /\ skipped' = [skipped EXCEPT ![r] = @ \cup {<<x.e, x.c>> : x \in g}]
    /\ grads' = [grads EXCEPT ![r] = {}]
    /\ zgLoop' = [zgLoop EXCEPT ![r] = @ + 1]
    /\ checked' = [checked EXCEPT ![r] = {x.g : x \in g}]

\* the lines one train batch adds to the log: line 231 and lines 253-256
BatchLines(g, c, ph) ==
    (IF AtBoundary(c, ph) /\ ~validate_gradient(g) THEN {"gradient not valid"} ELSE {})
        \cup (IF AtVerbose(c, ph) THEN {"progress"} ELSE {})

\* curr_iter counted inside the epoch only
CurrIterLocal(total, e, c) == c

\* line 247: curr_iter = total_iterations * (epoch - 1) + c_iter
CurrIter(total, e, c) == total * (e - 1) + c

\* lines 248-249 and 266-267: one add_scalar per tracked name, all with the
\* same step; run, epoch and total say where the emission was made
Emission(r, sm, step) ==
    [series |-> {<<phase[r], k>> : k \in DOMAIN sm.d},
     value |-> [k \in DOMAIN sm.d |-> MeterAvg(sm.d[k])],
     step |-> step,
     run |-> run, epoch |-> epoch[r], total |-> LoaderLen(phase[r])]

\* lines 199-262 in the train phase: one batch, forward, backward, step,
\* meters, progress report
TrainBatch(r) ==
    /\ pc[r] = "batch" /\ phase[r] = "train"
    /\ c_iter[r] < LoaderLen("train")
    /\ distributed => AllReduced(r)
    /\ \E k \in GradKinds, ks \in cfg.keysets :
         LET b == c_iter[r] + 1
             synced == distributed /\ allreduce.c = b
             gk == IF synced THEN allreduce.g ELSE k
             g == grads[r] \cup {[e |-> epoch[r], c |-> b, g |-> gk]}
             su == StatsUpdate(stats_meter[r], LossInfo(ks))
         IN  /\ allreduce' = IF distributed THEN [c |-> b, g |-> gk] ELSE allreduce
             /\ IF AtBoundary(c_iter[r], phase[r])
                THEN StepOrSkip(r, g, b)
                ELSE /\ grads' = [grads EXCEPT ![r] = g]
                     /\ checked' = [checked EXCEPT ![r] = {}]
                     /\ UNCHANGED <<optimizer, model, stepAt, applied, skipped, zgLoop>>
             /\ stats_meter' = [stats_meter EXCEPT ![r] = su.meter]
             /\ loss_info' = [loss_info EXCEPT ![r] = LossInfo(ks)]
             /\ visited' = [visited EXCEPT ![r] = Append(@, <<epoch[r], b>>)]
             /\ IF su.ok
                THEN /\ LoggerWrite(r, BatchLines(g, c_iter[r], phase[r]))
                     /\ scalars' = [scalars EXCEPT ![r] =
                           IF AtVerbose(c_iter[r], phase[r])
                           THEN Append(@, Emission(r, su.meter,
                                          CurrIter(LoaderLen("train"), epoch[r], c_iter[r])))
                           ELSE @]
                     /\ pc' = pc
                ELSE /\ LoggerWrite(r, BatchLines(g, c_iter[r], phase[r]) \ {"progress"})
                     /\ scalars' = scalars
                     /\ pc' = [pc EXCEPT ![r] = "crashed"]
    /\ c_iter' = [c_iter EXCEPT ![r] = @ + 1]
    /\ UNCHANGED <<cfg, run, start_epoch, best_loss, best_recall, scheduler,
                   phase, epoch, evalVars, zgStart, saveVars, modelfile, resumed>>

\* the samples of batch c of the loader: batch_size of them, the last batch
\* may be short
BatchSizes(c, ph) == IF c + 1 = LoaderLen(ph) THEN 1 .. cfg.batch_size ELSE {cfg.batch_size}

\* np.sum(rmses <= 0.2)
SuccCountInclusive(rmses) == Cardinality({i \in DOMAIN rmses : rmses[i] <= Threshold})

\* line 260: np.sum(rmses < 0.2)
SuccCount(rmses) == Cardinality({i \in DOMAIN rmses : rmses[i] < Threshold})

\* a val batch that is also optimised
EvalBatchStep(r) ==
    /\ pc[r] = "batch" /\ phase[r] # "train"
    /\ c_iter[r] < LoaderLen(phase[r])
    /\ \E ks \in cfg.keysets, n \in BatchSizes(c_iter[r], phase[r]) :
         \E rmses \in [1 .. n -> cfg.rmses] :
            LET su == StatsUpdate(stats_meter[r], LossInfo(ks))
            IN  /\ stats_meter' = [stats_meter EXCEPT ![r] = su.meter]
                /\ loss_info' = [loss_info EXCEPT ![r] = LossInfo(ks)]
                /\ IF su.ok
                   THEN /\ succ_iteration' = [succ_iteration EXCEPT ![r] = @ + SuccCount(rmses)]
                        /\ recalled' = [recalled EXCEPT ![r] =
                              [calls |-> @.calls + 1,
                               seen |-> [v \in RmseVals |->
                                  @.seen[v] + Cardinality({i \in 1 .. n : rmses[i] = v})]]]
                        /\ pc' = pc
                   ELSE /\ succ_iteration' = succ_iteration
                        /\ recalled' = recalled
                        /\ pc' = [pc EXCEPT ![r] = "crashed"]
    /\ optimizer' = [optimizer EXCEPT ![r] = @ + 1]
    /\ model' = [model EXCEPT ![r].params = [nm \in ParamNames |-> @[nm] + 1]]
    /\ c_iter' = [c_iter EXCEPT ![r] = @ + 1]
    /\ UNCHANGED <<cfg, run, start_epoch, best_loss, best_recall, scheduler,
                   phase, epoch, grads, allreduce, RR,
                   histVars, saveVars, sinkVars, scalars, resumed>>

\* lines 199-262 in the val phase: one batch, forward only, meters, recall
EvalBatch(r) ==
    /\ pc[r] = "batch" /\ phase[r] # "train"
    /\ c_iter[r] < LoaderLen(phase[r])
    /\ \E ks \in cfg.keysets, n \in BatchSizes(c_iter[r], phase[r]) :
         \E rmses \in [1 .. n -> cfg.rmses] :
            LET su == StatsUpdate(stats_meter[r], LossInfo(ks))
            IN  /\ stats_meter' = [stats_meter EXCEPT ![r] = su.meter]
                /\ loss_info' = [loss_info EXCEPT ![r] = LossInfo(ks)]
                /\ IF su.ok
                   THEN /\ succ_iteration' = [succ_iteration EXCEPT ![r] = @ + SuccCount(rmses)]
                        /\ recalled' = [recalled EXCEPT ![r] =
                              [calls |-> @.calls + 1,
                               seen |-> [v \in RmseVals |->
                                  @.seen[v] + Cardinality({i \in 1 .. n : rmses[i] = v})]]]
                        /\ pc' = pc
                   ELSE /\ succ_iteration' = succ_iteration
                        /\ recalled' = recalled
                        /\ pc' = [pc EXCEPT ![r] = "crashed"]
    /\ c_iter' = [c_iter EXCEPT ![r] = @ + 1]
    /\ UNCHANGED <<cfg, run, trainerVars, phase, epoch, grads, allreduce, RR,
                   histVars, saveVars, sinkVars, scalars, resumed>>

\* line 306 and 314: the validation pass if asked for, then the break
AfterSave(r) == IF cfg.do_valid THEN "epoch" ELSE "done"

\* lines 264-277 followed by the update of best_loss that lines 298-299 and
\* 308-309 keep commented out
EpochEndBest(r) ==
    /\ pc[r] = "batch"
    /\ c_iter[r] = LoaderLen(phase[r])
    /\ IF stats_meter[r].set
       THEN /\ LoggerWrite(r, IF phase[r] = "train" THEN {"epoch"} ELSE {"RR", "epoch"})
            /\ scalars' = [scalars EXCEPT ![r] =
                  IF phase[r] = "train" THEN @
                  ELSE Append(@, Emission(r, stats_meter[r], epoch[r]))]
            /\ RR' = [RR EXCEPT ![r] =
                  IF phase[r] = "train" THEN @
                  ELSE <<succ_iteration[r], LoaderLen(phase[r]) * cfg.batch_size>>]
            /\ best_loss' = [best_loss EXCEPT ![r] =
                  IF stats_meter[r].d["loss"].sum < @ * stats_meter[r].d["loss"].count
                  THEN stats_meter[r].d["loss"].sum \div stats_meter[r].d["loss"].count
                  ELSE @]
            /\ pc' = [pc EXCEPT ![r] = IF phase[r] = "train" THEN "sched" ELSE "done"]
       ELSE /\ logfile' = logfile
            /\ scalars' = scalars
            /\ RR' = RR
            /\ best_loss' = best_loss
            /\ pc' = [pc EXCEPT ![r] = "crashed"]
    /\ UNCHANGED <<cfg, run, start_epoch, best_recall, model, optimizer, scheduler,
                   loopVars, succ_iteration, recalled,
                   histVars, saveVars, modelfile, resumed>>

\* lines 264-277: the report after the loop; stats_meter is still None when
\* the loader was empty, and stats_meter.items() raises
EpochEnd(r) ==
    /\ pc[r] = "batch"
    /\ c_iter[r] = LoaderLen(phase[r])
    /\ IF stats_meter[r].set
       THEN /\ LoggerWrite(r, IF phase[r] = "train" THEN {"epoch"} ELSE {"RR", "epoch"})
            /\ scalars' = [scalars EXCEPT ![r] =
                  IF phase[r] = "train" THEN @
                  ELSE Append(@, Emission(r, stats_meter[r], epoch[r]))]
            /\ RR' = [RR EXCEPT ![r] =
                  IF phase[r] = "train" THEN @
                  ELSE <<succ_iteration[r], LoaderLen(phase[r]) * cfg.batch_size>>]
            /\ pc' = [pc EXCEPT ![r] = IF phase[r] = "train" THEN "sched" ELSE "done"]
       ELSE /\ logfile' = logfile
            /\ scalars' = scalars
            /\ RR' = RR
            /\ pc' = [pc EXCEPT ![r] = "crashed"]
    /\ UNCHANGED <<cfg, run, trainerVars, loopVars, succ_iteration, recalled,
                   histVars, saveVars, modelfile, resumed>>

\* ------------------------------------------------------------ train(), tail
\* lines 292-295 without the test of the rank
SchedulerStepAllSave(r) ==
    /\ pc[r] = "sched"
    /\ scheduler' = [scheduler EXCEPT ![r] = @ + 1]
    /\ pc' = [pc EXCEPT ![r] = "snapshot"]
    /\ phase' = phase
    /\ UNCHANGED <<cfg, run, start_epoch, best_loss, best_recall, model, optimizer,
                   epoch, c_iter, grads, stats_meter, loss_info, allreduce,
                   evalVars, histVars, saveVars, sinkVars, scalars, resumed>>

\* lines 292-295 with the scheduler step left for after the save
SchedulerStepLate(r) ==
    /\ pc[r] = "sched"
    /\ scheduler' = scheduler
    /\ IF r = 0
       THEN /\ pc' = [pc EXCEPT ![r] = "snapshot"]
            /\ phase' = phase
       ELSE /\ pc' = [pc EXCEPT ![r] = AfterSave(r)]
            /\ phase' = [phase EXCEPT ![r] = IF cfg.do_valid THEN "val" ELSE @]
    /\ UNCHANGED <<cfg, run, start_epoch, best_loss, best_recall, model, optimizer,
                   epoch, c_iter, grads, stats_meter, loss_info, allreduce,
                   evalVars, histVars, saveVars, sinkVars, scalars, resumed>>

\* lines 292-294 (and 306 for a rank that does not save)
SchedulerStep(r) ==
    /\ pc[r] = "sched"
    /\ scheduler' = [scheduler EXCEPT ![r] = @ + 1]
    /\ IF r = 0
       THEN /\ pc' = [pc EXCEPT ![r] = "snapshot"]
            /\ phase' = phase
       ELSE /\ pc' = [pc EXCEPT ![r] = AfterSave(r)]
            /\ phase' = [phase EXCEPT ![r] = IF cfg.do_valid THEN "val" ELSE @]
    /\ UNCHANGED <<cfg, run, start_epoch, best_loss, best_recall, model, optimizer,
                   epoch, c_iter, grads, stats_meter, loss_info, allreduce,
                   evalVars, histVars, saveVars, sinkVars, scalars, resumed>>

\* ------------------------------------------------------------------ _snapshot
\* the names as the wrapped model has them
SavedStateDictRaw(m) == StateDict(m)

\* lines 98-102: the parameter names that go into the file
SavedStateDict(m) ==
    IF distributed THEN StripAll(StateDict(m))
    ELSE IF parallel THEN StateDict([m EXCEPT !.depth = @ - 1])
    ELSE StateDict(m)

\* the archival name without the label
FilenameEpochOnly(e, name) == [base |-> "model", label |-> <<e>>]

\* lines 114-117
Filename(e, name) == [base |-> "model", label |-> IF name = <<>> THEN <<e>> ELSE name]

\* line 295: f'{epoch}_epoch_model_loss_{loss}'
Label(e, loss) == <<e>> \o loss

\* lines 97-121: build the record, log, write snapshot.pth
Snapshot(r) ==
    /\ pc[r] = "snapshot"
    /\ LET st == [epoch |-> epoch[r],
                  state_dict |-> SavedStateDict(model[r]),
                  optimizer |-> optimizer[r],
                  scheduler |-> scheduler[r],
                  best_loss |-> best_loss[r],
                  best_recall |-> best_recall[r]]
           fn == Filename(epoch[r], Label(epoch[r], MeterAvg(stats_meter[r].d["loss"])))
       IN  /\ state' = [state EXCEPT ![r] = st]
           /\ filename' = [filename EXCEPT ![r] = fn]
           /\ fs' = [n \in DOMAIN fs \cup {SnapshotName} |->
                        IF n = SnapshotName THEN st ELSE fs[n]]
           /\ ckwrites' = Append(ckwrites,
                             [rank |-> r, name |-> SnapshotName, after |-> visited[r]])
    /\ LoggerWrite(r, {"save"})
    /\ pc' = [pc EXCEPT ![r] = "archive"]
    /\ UNCHANGED <<cfg, run, trainerVars, loopVars, evalVars, histVars, saved, lastSave,
                   modelfile, scalars, resumed>>

\* line 122: write model_<label>.pth (and 306 after it)
SnapshotArchive(r) ==
    /\ pc[r] = "archive"
    /\ fs' = [n \in DOMAIN fs \cup {filename[r]} |->
                 IF n = filename[r] THEN state[r] ELSE fs[n]]
    /\ ckwrites' = Append(ckwrites,
                      [rank |-> r, name |-> filename[r], after |-> visited[r]])
    /\ saved' = Append(saved,
                   [run |-> run, rank |-> r, epoch |-> epoch[r], name |-> filename[r],
                    hit |-> resumed[r].hit])
    /\ lastSave' = [epoch |-> epoch[r],
                    optimizer |-> optimizer[r], scheduler |-> scheduler[r],
                    best_loss |-> best_loss[r], best_recall |-> best_recall[r],
                    params |-> model[r].params, mode |-> cfg.mode]
    /\ pc' = [pc EXCEPT ![r] = AfterSave(r)]
    /\ phase' = [phase EXCEPT ![r] = IF cfg.do_valid THEN "val" ELSE @]
    /\ UNCHANGED <<cfg, run, trainerVars, epoch, c_iter, grads, stats_meter, loss_info, allreduce,
                   evalVars, histVars, state, filename, sinkVars, scalars, resumed>>

Next ==
    \/ \E r \in Ranks : Construct(r)
    \/ \E r \in Ranks : Setup(r)
    \/ \E r \in Ranks : TrainBegin(r)
    \/ \E r \in Ranks : EpochBegin(r)
    \/ \E r \in Ranks : TrainBatch(r)
    \/ \E r \in Ranks : EvalBatch(r)
    \/ \E r \in Ranks : EpochEnd(r)
    \/ \E r \in Ranks : SchedulerStep(r)
    \/ \E r \in Ranks : Snapshot(r)
    \/ \E r \in Ranks : SnapshotArchive(r)

Spec == Init /\ [][Next]_vars

NextResume ==
    \/ \E r \in Ranks : Construct(r)
    \/ \E r \in Ranks : Setup(r)
    \/ \E r \in Ranks : TrainBegin(r)
    \/ \E r \in Ranks : EpochBegin(r)
    \/ \E r \in Ranks : TrainBatch(r)
    \/ \E r \in Ranks : EpochEnd(r)
    \/ \E r \in Ranks : SchedulerStep(r)
    \/ \E r \in Ranks : Snapshot(r)
    \/ \E r \in Ranks : SnapshotArchive(r)
    \/ NewRun

SpecResume == InitResume /\ [][NextResume]_vars

SpecEval == InitEval /\ [][Next]_vars

SpecSeries == InitSeries /\ [][NextResume]_vars

TypeOK == \A r \in Ranks : pc[r] \in {"off", "new", "wrapped", "ready", "epoch", "batch",
                                      "sched", "snapshot", "archive", "done", "crashed"}

\* ===================================================================== claims
\* rank r has entered the loop of its train epoch (and may have left it)
InTrainEpoch(r) == phase[r] = "train" /\ epoch[r] > 0 /\ pc[r] # "epoch"

\* rank r has left the loop of its train epoch normally
PastTrainLoop(r) == phase[r] = "train" /\ pc[r] \in {"sched", "snapshot", "archive"}

\* the optimizer state rank r started the epoch with
OptimizerBase(r) == IF resumed[r].hit THEN resumed[r].rec.optimizer ELSE 0

\* C1: in a train epoch whose gradients are all valid, after c batches the
\* optimizer has stepped exactly after batches k, 2k, ... <= c (so floor(N/k)
\* times when the loop is left), and the gradients have been cleared once
\* before the first batch and once per step inside the loop.
C1_StepSchedule ==
    \A r \in Ranks :
        (InTrainEpoch(r) /\ skipped[r] = {}) =>
            /\ stepAt[r] = {b \in 1 .. c_iter[r] : b % cfg.iter_size = 0}
            /\ optimizer[r] = OptimizerBase(r) + (c_iter[r] \div cfg.iter_size)
            /\ zgLoop[r] = c_iter[r] \div cfg.iter_size
            /\ zgStart[r] = 1
            /\ PastTrainLoop(r) => c_iter[r] = cfg.ntrain

C1_Witness ==
    /\ cfg.iter_size = 2 /\ cfg.ntrain = 5
    /\ PastTrainLoop(0)
    /\ stepAt[0] = {2, 4} /\ zgLoop[0] = 2 /\ zgStart[0] = 1 /\ optimizer[0] = 2

\* a gradient set is invalid when it holds a NaN/Inf or is zero everywhere
KindsValid(ks) == "nan" \notin ks /\ "ok" \in ks

\* the step of rank r that ends an accumulation window
BoundaryStep(r) ==
    /\ pc[r] = "batch" /\ phase[r] = "train"
    /\ c_iter'[r] = c_iter[r] + 1
    /\ (c_iter[r] + 1) % cfg.iter_size = 0

\* C2: at every accumulation boundary the optimizer step is applied iff the
\* accumulated gradients are valid; a skipped boundary leaves the parameters
\* and the optimizer as they were, an applied one changes the parameters.
C2_StepIffValid ==
    [][\A r \in Ranks :
          BoundaryStep(r) =>
              /\ checked'[r] # {}
              /\ KindsValid(checked'[r]) <=> optimizer'[r] = optimizer[r] + 1
              /\ ~KindsValid(checked'[r]) =>
                     model'[r] = model[r] /\ optimizer'[r] = optimizer[r]
              /\ KindsValid(checked'[r]) =>
                     \A nm \in ParamNames : model'[r].params[nm] # model[r].params[nm]]_vars

C2_Witness ==
    /\ cfg.iter_size = 2
    /\ pc[0] = "batch" /\ phase[0] = "train" /\ c_iter[0] = 4
    /\ checked[0] = {"ok", "zero"}
    /\ stepAt[0] = {4} /\ skipped[0] = {<<1, 1>>, <<1, 2>>}
    /\ optimizer[0] = 1

\* C3: every boundary clears the pending gradients, step or no step; the
\* loop goes on with the next batch, visiting every batch once and in
\* order; gradients of a skipped window are in no optimizer step.
C3_ClearAndContinue ==
    \A r \in Ranks :
        InTrainEpoch(r) =>
            /\ {<<x.e, x.c>> : x \in grads[r]} =
                  {<<epoch[r], b>> :
                      b \in (c_iter[r] - (c_iter[r] % cfg.iter_size) + 1) .. c_iter[r]}
            /\ zgLoop[r] = c_iter[r] \div cfg.iter_size
            /\ visited[r] = [i \in 1 .. c_iter[r] |-> <<epoch[r], i>>]
            /\ applied[r] \cap skipped[r] = {}
            /\ applied[r] \cup skipped[r] =
                  {<<epoch[r], b>> :
                      b \in 1 .. (c_iter[r] - (c_iter[r] % cfg.iter_size))}
            /\ PastTrainLoop(r) => c_iter[r] = cfg.ntrain

C3_Witness ==
    /\ cfg.iter_size = 2 /\ cfg.ntrain = 5
    /\ PastTrainLoop(0)
    /\ skipped[0] = {<<1, 1>>, <<1, 2>>}
    /\ applied[0] = {<<1, 3>>, <<1, 4>>}
    /\ Len(visited[0]) = 5

\* C4: whenever snapshot.pth holds a record, an archival file holds that
\* same record.
C4_LatestHasArchive ==
    SnapshotName \in DOMAIN fs =>
        \E n \in DOMAIN fs : n.base = "model" /\ fs[n] = fs[SnapshotName]

\* the fields of a checkpoint record
RecordFields == {"epoch", "state_dict", "optimizer", "scheduler", "best_loss", "best_recall"}

Last(q) == q[Len(q)]

\* C5: a completed save has written exactly snapshot.pth and then
\* model_<label>.pth, with one and the same record of the six fields, taken
\* from the trainer; when no save is under way, snapshot.pth equals the
\* archival file of the most recent save.
C5_TwoIdenticalCopies ==
    /\ \A r \in Ranks :
          (\E i \in 1 .. Len(saved) : saved[i].run = run /\ saved[i].rank = r) =>
              LET s == Last(saved)
                  mine == SelectSeq(ckwrites, LAMBDA w : w.rank = r)
              IN  /\ s.run = run /\ s.rank = r
                  /\ [i \in 1 .. Len(mine) |-> mine[i].name] = <<SnapshotName, s.name>>
                  /\ s.name.base = "model"
                  /\ Len(s.name.label) = 3 /\ s.name.label[1] = s.epoch
    /\ (saved # <<>> /\ \A r \in Ranks : pc[r] # "archive") =>
          LET s == Last(saved)
          IN  /\ SnapshotName \in DOMAIN fs /\ s.name \in DOMAIN fs
              /\ fs[SnapshotName] = fs[s.name]
              /\ DOMAIN fs[s.name] = RecordFields
              /\ fs[s.name].epoch = s.epoch /\ lastSave.epoch = s.epoch
              /\ fs[s.name].optimizer = lastSave.optimizer
              /\ fs[s.name].scheduler = lastSave.scheduler
              /\ fs[s.name].best_loss = lastSave.best_loss
              /\ fs[s.name].best_recall = lastSave.best_recall
              /\ \A nm \in ParamNames : \E k \in DOMAIN fs[s.name].state_dict :
                    k.name = nm /\ fs[s.name].state_dict[k] = lastSave.params[nm]

C5_Witness ==
    /\ Len(saved) = 2
    /\ saved[1].name # saved[2].name
    /\ saved[1].epoch = saved[2].epoch
    /\ fs[saved[1].name] # fs[saved[2].name]
    /\ fs[SnapshotName] = fs[saved[2].name]
    /\ pc[0] = "done"

\* C6: a trainer constructed from the checkpoint that a save at epoch e
\* wrote starts at epoch e + 1 with the saved optimizer state, scheduler
\* state, best_loss and best_recall.
C6_RoundTrip ==
    \A r \in Ranks :
        (resumed[r].hit /\ saved # <<>>) =>
            /\ pc[r] = "ready" =>
                  /\ start_epoch[r] = lastSave.epoch + 1
                  /\ optimizer[r] = lastSave.optimizer
                  /\ scheduler[r] = lastSave.scheduler
                  /\ best_loss[r] = lastSave.best_loss
                  /\ best_recall[r] = lastSave.best_recall
            /\ ~(pc[r] = "crashed" /\ epoch[r] = 0)

C6_Witness ==
    /\ run = 2 /\ resumed[0].hit /\ pc[0] = "ready"
    /\ lastSave.epoch = 1 /\ lastSave.optimizer = 1 /\ lastSave.scheduler = 1
    /\ start_epoch[0] = 2 /\ optimizer[0] = 1 /\ scheduler[0] = 1
    /\ best_loss[0] = BestLossInit /\ best_recall[0] = BestRecallInit

C8_MissingCheckpoint ==
    \A r \in Ranks :
        (/\ cfg.pretrain # NoPretrain
         /\ ~resumed[r].hit
         /\ pc[r] \notin {"off", "new", "wrapped"}) =>
            /\ start_epoch[r] = 1
            /\ best_loss[r] = 100000 /\ best_recall[r] = -100000
            /\ pc[r] = "ready" =>
                  /\ \A nm \in ParamNames : model[r].params[nm] = 0
                  /\ optimizer[r] = 0 /\ scheduler[r] = 0
            /\ ~(pc[r] = "crashed" /\ epoch[r] = 0)
            /\ pc[r] \in {"epoch", "batch", "sched", "snapshot", "archive"} => epoch[r] = 1

C8_Witness ==
    /\ run = 2 /\ SnapshotName \in DOMAIN fs /\ fs[SnapshotName].optimizer > 0
    /\ cfg.pretrain = MissingName
    /\ pc[0] = "batch" /\ epoch[0] = 1 /\ c_iter[0] = 1

\* C9: every checkpoint file write is made by rank 0, after rank 0 has been
\* through every batch of the train pass, so no file has two writers.
C9_OnlyRankZeroSaves ==
    /\ \A r \in Ranks : pc[r] \in {"snapshot", "archive"} => r = 0
    /\ \A i \in 1 .. Len(ckwrites) :
          /\ ckwrites[i].rank = 0
          /\ ckwrites[i].after = [b \in 1 .. cfg.ntrain |-> <<epoch[0], b>>]
    /\ \A i, j \in 1 .. Len(ckwrites) :
          ckwrites[i].name = ckwrites[j].name => ckwrites[i].rank = ckwrites[j].rank

C9_Witness ==
    /\ cfg.mode = "distributed" /\ cfg.ntrain = 2
    /\ Len(ckwrites) = 2
    /\ pc[1] = "batch" /\ phase[1] = "train" /\ c_iter[1] = 1

\* C10: only rank 0 writes to the log file and to the model-description
\* file.
C10_OnlyRankZeroLogs ==
    /\ \A w \in logfile : w[1] = 0
    /\ modelfile \subseteq {0}

\* the metric names stats_meter of rank r tracks
Tracked(r) == DOMAIN stats_meter[r].d

\* C11: the meters of an epoch are made from the names of its first
\* LossInfo and the tracked names never change after that in the epoch: a
\* later LossInfo with a name that is not tracked adds no meter (the update
\* raises and the epoch ends there), one with fewer names removes none; an
\* epoch begins with no meter at all.
C11_KeySetFrozen ==
    [][\A r \in Ranks :
          /\ (~stats_meter[r].set /\ stats_meter'[r].set) =>
                 DOMAIN stats_meter'[r].d = DOMAIN loss_info'[r]
          /\ (stats_meter[r].set /\ stats_meter'[r].set) =>
                 /\ DOMAIN stats_meter'[r].d = Tracked(r)
                 /\ ~(DOMAIN loss_info'[r] \subseteq Tracked(r)) =>
                        pc'[r] = "crashed" /\ stats_meter'[r] = stats_meter[r]
          /\ (pc[r] = "epoch" /\ pc'[r] = "batch") => stats_meter'[r] = NoMeter
          /\ (pc[r] = "batch" /\ c_iter[r] = 0) => ~stats_meter[r].set]_vars

C11_Witness ==
    /\ phase[0] = "train" /\ c_iter[0] = 2 /\ pc[0] = "crashed"
    /\ Tracked(0) = {"loss"} /\ DOMAIN loss_info[0] = LossKeys
    /\ stats_meter[0].d["loss"].count = 1

\* RMSEs, in hundredths, that count as a registration success
Successes == {5, 19}

RECURSIVE Total(_, _)
\* the sum of f over the set S
Total(f, S) == IF S = {} THEN 0
               ELSE LET x == CHOOSE y \in S : TRUE IN f[x] + Total(f, S \ {x})

\* C12: in a val epoch the success count is the number of samples seen so
\* far whose RMSE is below 0.2, a sample at exactly 0.2 not being one; the
\* recall reported after the loop is that count over
\* total_iterations * batch_size, whose denominator is not zero.
C12_RecallCount ==
    \A r \in Ranks :
        phase[r] = "val" =>
            /\ pc[r] \in {"batch", "done", "crashed"} =>
                  /\ succ_iteration[r] = Total(recalled[r].seen, Successes)
                  /\ succ_iteration[r] <= Total(recalled[r].seen, RmseVals) - recalled[r].seen[20]
            /\ pc[r] = "done" =>
                  /\ RR[r] = <<Total(recalled[r].seen, Successes), cfg.nval * cfg.batch_size>>
                  /\ RR[r][2] > 0

C12_Witness ==
    /\ phase[0] = "val" /\ pc[0] = "done"
    /\ cfg.nval = 2 /\ cfg.batch_size = 2
    /\ recalled[0].seen = [v \in RmseVals |-> IF v = 20 THEN 0 ELSE 1]
    /\ succ_iteration[0] = 2 /\ RR[0] = <<2, 4>>

\* the emissions of rank r that belong to a train series
TrainEmissions(r) ==
    {i \in 1 .. Len(scalars[r]) : \E sr \in scalars[r][i].series : sr[1] = "train"}

\* C13: of two train emissions of one writer, made in epochs with the same
\* batch count and, when they come from different runs, in epochs of
\* increasing index, the later one has the strictly greater global step.
C13_StepsIncrease ==
    \A r \in Ranks : \A i, j \in TrainEmissions(r) :
        (/\ i < j
         /\ scalars[r][i].total = scalars[r][j].total
         /\ scalars[r][i].run < scalars[r][j].run =>
               scalars[r][i].epoch < scalars[r][j].epoch) =>
            /\ scalars[r][i].step < scalars[r][j].step
            /\ scalars[r][j].step =
                  scalars[r][j].total * (scalars[r][j].epoch - 1)
                     + (scalars[r][j].step % scalars[r][j].total)

C13_Witness ==
    /\ run = 2 /\ cfg.ntrain = 2 /\ cfg.verbose_freq = 1
    /\ Len(scalars[0]) = 4
    /\ [i \in 1 .. 4 |-> scalars[0][i].step] = <<0, 1, 2, 3>>
    /\ [i \in 1 .. 4 |-> scalars[0][i].epoch] = <<1, 1, 2, 2>>

\* the scheduler state rank r was constructed with
SchedulerBase(r) == IF resumed[r].hit THEN resumed[r].rec.scheduler ELSE 0

\* the checkpoint writes rank r has made in this run
WritesOf(r) == SelectSeq(ckwrites, LAMBDA w : w.rank = r)

\* rank r is in the train pass of its epoch
TrainPass(r) == phase[r] = "train" /\ pc[r] \in {"epoch", "batch", "sched"}

\* C14: in every process the scheduler is stepped once, after the whole
\* train pass and before anything is saved; rank 0 then saves, under a label
\* made of the epoch and the average train loss, a record that holds the
\* stepped scheduler; the val pass runs only if do_valid and only after
\* that, on rank 0 after both files are written.
C14_EpochOrder ==
    /\ [](\A r \in Ranks :
             /\ TrainPass(r) => scheduler[r] = SchedulerBase(r) /\ WritesOf(r) = <<>>
             /\ (pc[r] \in {"snapshot", "archive"} \/ phase[r] = "val") =>
                   /\ scheduler[r] = SchedulerBase(r) + 1
                   /\ Len(visited[r]) = cfg.ntrain
             /\ pc[r] = "archive" =>
                   /\ phase[r] = "train"
                   /\ fs[SnapshotName].scheduler = scheduler[r]
                   /\ filename[r].label[1] = epoch[r]
                   /\ filename[r].label[2] * stats_meter[r].d["loss"].count
                         = filename[r].label[3] * stats_meter[r].d["loss"].sum
                   /\ stats_meter[r].d["loss"].count = cfg.ntrain
             /\ phase[r] = "val" =>
                   /\ cfg.do_valid
                   /\ r = 0 => /\ Len(WritesOf(r)) = 2
                               /\ fs[WritesOf(r)[2].name].scheduler = scheduler[r]
             /\ (pc[r] = "done" /\ epoch[r] > 0 /\ cfg.do_valid) => phase[r] = "val")
    /\ [][\A r \in Ranks :
             /\ scheduler'[r] # scheduler[r] =>
                   pc[r] = "sched" /\ scheduler'[r] = scheduler[r] + 1
             /\ (phase[r] = "train" /\ phase'[r] = "val") =>
                   pc[r] = (IF r = 0 THEN "archive" ELSE "sched")]_vars

C14_Witness ==
    /\ cfg.mode = "distributed" /\ cfg.do_valid /\ cfg.ntrain = 2
    /\ phase[0] = "val" /\ pc[0] = "done" /\ phase[1] = "val" /\ pc[1] = "done"
    /\ Len(ckwrites) = 2 /\ scheduler[0] = 1 /\ scheduler[1] = 1
    /\ fs[SnapshotName].scheduler = 1 /\ fs[SnapshotName].optimizer = 1

\* rank r has returned from train() ("Training finish!")
Finished(r) == pc[r] = "done"

\* an exception has ended train() of rank r inside run_epoch
RaisedInEpoch(r) == pc[r] = "crashed" /\ epoch[r] > 0

\* C15: train() ends only by reaching "Training finish!", never by an
\* exception, and trains at most one epoch: with start_epoch < max_epoch it
\* goes once through the batches of epoch start_epoch and of no other epoch,
\* with start_epoch >= max_epoch it starts no epoch, steps no scheduler and
\* writes no checkpoint.
C15_OneEpochThenFinish ==
    \A r \in Ranks :
        /\ ~RaisedInEpoch(r)
        /\ \A i \in 1 .. Len(visited[r]) : visited[r][i] = <<start_epoch[r], i>>
        /\ zgStart[r] <= (IF cfg.do_valid THEN 2 ELSE 1)
        /\ Finished(r) =>
              IF start_epoch[r] < cfg.max_epoch
              THEN /\ epoch[r] = start_epoch[r]
                   /\ Len(visited[r]) = cfg.ntrain
                   /\ scheduler[r] = SchedulerBase(r) + 1
              ELSE /\ epoch[r] = 0 /\ visited[r] = <<>> /\ zgStart[r] = 0
                   /\ scheduler[r] = SchedulerBase(r)
                   /\ WritesOf(r) = <<>>

\* the same holds of the runs in which no loader that is used is empty
FinishesOnNonEmptyLoaders ==
    (cfg.ntrain > 0 /\ (cfg.do_valid => cfg.nval > 0)) => C15_OneEpochThenFinish

\* C16: a run that loaded the checkpoint of the latest save trains the
\* epoch after the saved one, if it trains at all; so along saves made by
\* runs that each resumed, the epochs trained are consecutive, none twice
\* and none left out.
C16_ResumeContinuity ==
    /\ \A r \in Ranks :
          (resumed[r].hit /\ epoch[r] > 0) =>
              /\ epoch[r] = resumed[r].rec.epoch + 1
              /\ \E i \in 1 .. Len(saved) :
                    /\ saved[i].run < run /\ saved[i].epoch + 1 = epoch[r]
                    /\ \A j \in (i + 1) .. Len(saved) : saved[j].run = run
    /\ \A i, j \in 1 .. Len(saved) :
          (i < j /\ \A k \in (i + 1) .. j : saved[k].hit) =>
              saved[j].epoch = saved[i].epoch + (j - i)

C16_Witness ==
    /\ run = 2 /\ pc[0] = "done"
    /\ Len(saved) = 2 /\ saved[2].hit /\ ~saved[1].hit
    /\ saved[1].epoch = 1 /\ saved[2].epoch = 2
    /\ fs[SnapshotName].epoch = 2

\* the batches whose gradients are in .grad of rank r
Pending(r) == {<<x.e, x.c>> : x \in grads[r]}

\* the batches of the train epoch of rank r after its last full window
Trailing(r) ==
    {<<epoch[r], b>> : b \in (cfg.ntrain - (cfg.ntrain % cfg.iter_size) + 1) .. cfg.ntrain}

\* C17: an optimizer step applies the gradients of the iter_size batches up
\* to the current one, all of the current epoch, and leaves none pending;
\* pending gradients are always of the train epoch under way; the batches
\* after the last full window are in no step, and once the next run_epoch
\* has begun nothing is pending.
C17_AccumulationWindow ==
    /\ [](\A r \in Ranks :
             /\ Pending(r) # {} =>
                   /\ phase[r] = "train" \/ pc[r] = "epoch"
                   /\ Pending(r) \subseteq {<<epoch[r], b>> : b \in 1 .. c_iter[r]}
                   /\ Cardinality(Pending(r)) < cfg.iter_size
             /\ (phase[r] = "val" /\ pc[r] # "epoch") => Pending(r) = {}
             /\ (PastTrainLoop(r) \/ phase[r] = "val") =>
                   /\ applied[r] \cap Trailing(r) = {}
                   /\ Cardinality(Trailing(r)) = cfg.ntrain % cfg.iter_size
                   /\ phase[r] = "train" => Pending(r) = Trailing(r))
    /\ [][\A r \in Ranks :
             optimizer'[r] # optimizer[r] =>
                 /\ phase[r] = "train"
                 /\ applied'[r] \ applied[r] =
                       {<<epoch[r], b>> :
                           b \in (c_iter[r] + 2 - cfg.iter_size) .. (c_iter[r] + 1)}
                 /\ applied'[r] \ applied[r] = Pending(r) \cup {<<epoch[r], c_iter[r] + 1>>}
                 /\ applied[r] \cap (applied'[r] \ applied[r]) = {}
                 /\ Pending(r)' = {}]_vars

C17_Witness ==
    /\ cfg.ntrain = 5 /\ cfg.iter_size = 3
    /\ phase[0] = "val" /\ pc[0] = "done"
    /\ applied[0] = {<<1, 1>>, <<1, 2>>, <<1, 3>>}
    /\ Len(visited[0]) = 5 /\ grads[0] = {} /\ zgStart[0] = 2

\* C18: a val pass makes no optimizer step and no backward pass: while it
\* runs, the parameters, the optimizer state, the step and zero_grad counts
\* of the loop and the batches trained stay as the train pass left them and
\* no gradient is pending; get_recall is called once for every val batch
\* that got as far as line 258, and never in a train pass.
C18_ValIsReadOnly ==
    /\ [](\A r \in Ranks :
             /\ phase[r] = "train" => recalled[r] = NoRecall /\ succ_iteration[r] = 0
             /\ (phase[r] = "val" /\ pc[r] \in {"batch", "done"}) =>
                   /\ recalled[r].calls = c_iter[r]
                   /\ Total(recalled[r].seen, RmseVals) >= c_iter[r]
                   /\ grads[r] = {}
                   /\ optimizer[r] = OptimizerBase(r) + Cardinality(stepAt[r])
                   /\ \A nm \in ParamNames : model[r].params[nm] = Cardinality(stepAt[r])
                   /\ Len(visited[r]) = cfg.ntrain)
    /\ [][\A r \in Ranks :
             (phase[r] = "val" /\ phase'[r] = "val") =>
                 /\ optimizer'[r] = optimizer[r] /\ model'[r] = model[r]
                 /\ stepAt'[r] = stepAt[r] /\ zgLoop'[r] = zgLoop[r]
                 /\ visited'[r] = visited[r] /\ applied'[r] = applied[r]
                 /\ (c_iter'[r] = c_iter[r] + 1 /\ pc'[r] # "crashed") =>
                       recalled'[r].calls = recalled[r].calls + 1]_vars

C18_Witness ==
    /\ cfg.iter_size = 1 /\ cfg.ntrain = 2 /\ cfg.nval = 1
    /\ phase[0] = "val" /\ pc[0] = "done"
    /\ recalled[0].calls = 1 /\ optimizer[0] = 2 /\ stepAt[0] = {1, 2}
    /\ fs[SnapshotName].optimizer = 2

\* run_epoch of rank r has been through every batch of its loader and is
\* past the loop
PastLoop(r) ==
    /\ epoch[r] > 0 /\ c_iter[r] = LoaderLen(phase[r])
    /\ pc[r] \in {"sched", "snapshot", "archive", "done", "crashed"}

\* C19: run_epoch comes back with the meter of the epoch whatever the
\* length of the loader, also zero; every meter that exists has been updated
\* once per batch so far, at least once, so no average is sum / 0, and the
\* recall that was reported has a denominator that is not zero.
C19_MeterNeverEmpty ==
    \A r \in Ranks :
        /\ PastLoop(r) => pc[r] # "crashed" /\ stats_meter[r].set
        /\ stats_meter[r].set =>
              \A k \in Tracked(r) :
                  stats_meter[r].d[k].count = c_iter[r] /\ stats_meter[r].d[k].count >= 1
        /\ RR[r] # NoRR => RR[r][2] > 0

\* every conjunct but the return from an empty loader
MeterReadsAreSafe ==
    \A r \in Ranks :
        /\ (PastLoop(r) /\ LoaderLen(phase[r]) > 0) => pc[r] # "crashed" /\ stats_meter[r].set
        /\ stats_meter[r].set =>
              \A k \in Tracked(r) :
                  stats_meter[r].d[k].count = c_iter[r] /\ stats_meter[r].d[k].count >= 1
        /\ RR[r] # NoRR => RR[r][2] > 0

\* rank r is inside train()
InTrain(r) == pc[r] \in {"ready", "epoch", "batch", "sched", "snapshot", "archive"}

\* C20: once the constructor has returned, best_loss and best_recall keep
\* the value it gave them, 1e5 and -1e5 or what the loaded checkpoint held,
\* through every step of train(); every checkpoint written in the run holds
\* these values, whatever the losses were.
C20_BestNeverUpdated ==
    /\ [](\A r \in Ranks :
             pc[r] \notin {"off", "new", "wrapped"} =>
                 /\ best_loss[r] =
                       (IF resumed[r].hit THEN resumed[r].rec.best_loss ELSE 100000)
                 /\ best_recall[r] =
                       (IF resumed[r].hit THEN resumed[r].rec.best_recall ELSE -100000)
                 /\ \A i \in 1 .. Len(ckwrites) :
                       ckwrites[i].rank = r =>
                           /\ fs[ckwrites[i].name].best_loss = best_loss[r]
                           /\ fs[ckwrites[i].name].best_recall = best_recall[r])
    /\ [][\A r \in Ranks :
             InTrain(r) =>
                 best_loss'[r] = best_loss[r] /\ best_recall'[r] = best_recall[r]]_vars

C20_Witness ==
    /\ run = 2 /\ resumed[0].hit /\ pc[0] = "done" /\ Len(ckwrites) = 2
    /\ cfg.loss = 2 /\ stats_meter[0].d["loss"].sum = 4
    /\ resumed[0].rec.best_loss = 100000 /\ resumed[0].rec.best_recall = -100000
    /\ fs[SnapshotName].epoch = 2
    /\ fs[SnapshotName].best_loss = 100000 /\ fs[SnapshotName].best_recall = -100000

====
